---- MODULE Spec2Model ----
(***************************************************************************)
(* Membership / permission resolution of the User class                    *)
(* (src/unnamed/part_000): getGroups, endGroupMembership, addToGroup,      *)
(* getPermissions and hasPermission, over the users_groups, groups,        *)
(* groups_permissions and users_permissions tables.                        *)
(***************************************************************************)
EXTENDS Integers, Sequences, FiniteSets, TLC

\* ------------------------------------------------------------------ bounds
NumGroups == 4      \* group ids 1..NumGroups in the drawn group tables
MaxRows == 2        \* stored users_groups rows of the user in a drawn repository
MaxTime == 2        \* drawn epoch times are 1..MaxTime
MaxPair == 4        \* repetitions of a child id kept in one pairings list
MaxDepth == 3       \* segments of a drawn permission string or query
MaxGrants == 2      \* drawn users_permissions rows
MaxUg == 2          \* users_groups rows of the user that addToGroup may reach
MaxNow == 3         \* the clock runs from 1 to MaxNow

\* null / undefined: a falsy time (`to` = null is "no expiry", `parent` = null is "no parent")
Null == 0

VARIABLES
    gtable,      \* groups table: id -> [parent, membersAllowed, args, nameBase, nameDisplay]
    gperms,      \* groups_permissions: group id -> set of permission strings
    uperms,      \* users_permissions of this user: set of permission strings
    ug,          \* users_groups rows of this user, in rowid order: [gid, from, to, args]
    now,         \* the clock, moment().unix()
    cached,      \* this.groups is set (a Map, possibly empty)
    groups,      \* this.groups: group id -> resolved entry
    pairings,    \* pairings of the expansion that filled this.groups: parent id -> child ids
    permsCached, \* this.permissions is set (an object, possibly empty)
    permissions, \* this.permissions: the permission tree
    pc,          \* position of the running call: "idle", "rows" (inside handleRows), "resume"
    stack,       \* the callers awaiting the running call, innermost first
    op,          \* the running top-level call and its arguments
    ret,         \* the last top-level call that returned, and its value
    rows,        \* handleRows: the rows of the current level still to process
    nextLookup,  \* handleRows: parent ids pushed by the current level
    timeNow      \* getGroups: the clock value read at line 366

vars == <<gtable, gperms, uperms, ug, now, cached, groups, pairings, permsCached,
          permissions, pc, stack, op, ret, rows, nextLookup, timeNow>>

repo == <<gtable, gperms, uperms>>
expansion == <<cached, groups, pairings, rows, nextLookup, timeNow>>
permCache == <<permsCached, permissions>>

\* ------------------------------------------------------------ helpers
Min2(a, b) == IF a <= b THEN a ELSE b
Max2(a, b) == IF a >= b THEN a ELSE b
MinOf(S) == CHOOSE x \in S : \A y \in S : x <= y
MaxOf(S) == CHOOSE x \in S : \A y \in S : x >= y
Range(s) == {s[i] : i \in 1..Len(s)}

\* every order in which a query without ORDER BY may return the elements of S
Orders(S) == {s \in [1..Cardinality(S) -> S] : \A a \in S : \E i \in 1..Cardinality(S) : s[i] = a}

EmptyMap == [x \in {} |-> Null]

\* ------------------------------------------------ getGroups / handleRows
\* the rows of line 463-464: users_groups inner join groups for this user
DirectRows(u) ==
    {i \in 1..Len(u) : u[i].gid \in DOMAIN gtable}

DirectRow(u, i) == [id |-> u[i].gid, from |-> u[i].from, to |-> u[i].to, args |-> u[i].args, direct |-> TRUE]

\* ParentRow without lines 456-458: the row is taken for a direct row
ParentRowDirect(g) == [id |-> g, from |-> Null, to |-> Null, args |-> <<>>, direct |-> TRUE]

\* the rows of line 453-458: groups whose id is in nextLookup, marked direct = false
ParentRow(g) == [id |-> g, from |-> Null, to |-> Null, args |-> <<>>, direct |-> FALSE]

\* lines 375-384: the window of a direct row, merged with an entry already present
MergedFrom(row) ==
    IF row.id \in DOMAIN groups THEN Min2(row.from, groups[row.id].from) ELSE row.from

MergedTo(row) ==
    IF row.id \in DOMAIN groups
    THEN IF row.to # Null /\ groups[row.id].to # Null
         THEN Max2(row.to, groups[row.id].to)
         ELSE IF groups[row.id].to # Null THEN groups[row.id].to ELSE row.to
    ELSE row.to

\* lines 389-398: the window of a parent row, from the entries of pairings[row.id]
ChildrenFrom(row) == MinOf({groups[c].from : c \in Range(pairings[row.id])})

\* ChildrenTo without the Infinity branch of line 394: null counts as a number
ChildrenToNoInfinity(row) == MaxOf({groups[c].to : c \in Range(pairings[row.id])})

ChildrenTo(row) ==
    IF \E c \in Range(pairings[row.id]) : groups[c].to = Null
    THEN Null
    ELSE MaxOf({groups[c].to : c \in Range(pairings[row.id])})

\* lines 386-398: a parent row's window replaces what lines 375-384 computed
RowFrom(row) == IF row.direct THEN MergedFrom(row) ELSE ChildrenFrom(row)
RowTo(row) == IF row.direct THEN MergedTo(row) ELSE ChildrenTo(row)

\* IsActive with `timeTo <= timeNow` at line 402: a membership expires at its timeTo
IsActiveUntil(from, to, t) ==
    ~(from > t) /\ ~(to # Null /\ to <= t)

\* lines 400-402
IsActive(from, to, t) ==
    ~(from > t) /\ ~(to # Null /\ to < t)

\* a text is a sequence of tokens: words, and the placeholders "$1", "$2", ...;
\* a group without a display template has an empty name_display
NoTemplate == <<>>
NameBase == <<"Group">>

\* lines 416 / 526: const key = '$' + (i + 1)
Key(i) == "$" \o ToString(i)

\* String.prototype.replace with a string pattern acts on the first occurrence
\* of the pattern only (0: the pattern does not occur)
FirstIndex(text, key) ==
    IF key \in Range(text)
    THEN CHOOSE k \in 1..Len(text) : text[k] = key /\ \A j \in 1..(k - 1) : text[j] # key
    ELSE 0

\* the replacement text of String.prototype.replace: "$&" stands for the
\* matched text, "$n" is literal when the pattern has no capture groups
Substitution(arg, key) == IF arg = "$&" THEN key ELSE arg

\* lines 417 / 527: nameForUser.replace(key, args[i])
Replace(text, key, arg) ==
    IF FirstIndex(text, key) = 0
    THEN text
    ELSE [text EXCEPT ![FirstIndex(text, key)] = Substitution(arg, key)]

\* lines 415-418 / 525-528: the loop over the arguments, each replacement
\* made in the outcome of the one before
RECURSIVE ReplaceArgs(_, _, _)
ReplaceArgs(text, args, i) ==
    IF i > Len(args) THEN text ELSE ReplaceArgs(Replace(text, Key(i), args[i]), args, i + 1)

\* lines 412-419 / 522-529
nameForUser(base, display, args) ==
    IF display = NoTemplate THEN base ELSE ReplaceArgs(display, args, 1)

\* lines 421-441: the entry stored for a row; children aliases pairings[row.id]
\* when that list exists at this moment, and is null otherwise
EntryOf(row) ==
    [name |-> nameForUser(gtable[row.id].nameBase, gtable[row.id].nameDisplay, row.args),
     from |-> RowFrom(row),
     to |-> RowTo(row),
     active |-> IsActive(RowFrom(row), RowTo(row), timeNow),
     direct |-> row.direct,
     children |-> row.id \in DOMAIN pairings]

\* lines 445-446: pairings[parent].push(id); a list holds at most MaxPair
\* entries once the id is already in it (a hierarchy with a cycle pushes forever)
Push(pr, parent, id) ==
    IF parent \notin DOMAIN pr
    THEN [x \in DOMAIN pr \cup {parent} |-> IF x = parent THEN <<id>> ELSE pr[x]]
    ELSE IF Len(pr[parent]) >= MaxPair /\ id \in Range(pr[parent])
         THEN pr
         ELSE [pr EXCEPT ![parent] = Append(@, id)]

MapSet(m, k, v) == [x \in DOMAIN m \cup {k} |-> IF x = k THEN v ELSE m[x]]

\* the children array of an entry as a caller reads it
Children(g) == IF groups[g].children THEN pairings[g] ELSE <<>>

\* a call and its arguments; `read` tells whether the call has queried the tables
NoCall == [name |-> "none", gid |-> Null, args |-> <<>>, from |-> Null, to |-> Null, added |-> FALSE, active |-> FALSE, query |-> <<>>, read |-> FALSE]
NoRet == [name |-> "none", gid |-> Null, query |-> <<>>, val |-> "none", read |-> FALSE]
Call(n) == [NoCall EXCEPT !.name = n]
Ret(n, v) == [name |-> n, gid |-> op.gid, query |-> op.query, val |-> v, read |-> op.read]

\* csv-parse (lines 47-48): the text of an args column that the parser rejects
\* (a quoted field that is not terminated), and the outcome of csvParse
Malformed == "\"a"
csvParse(text) == [threw |-> text = Malformed, records |-> <<>>]

\* an exception leaves every async function that awaits the running call
Raise(err) ==
    /\ ret' = Ret(op.name, err)
    /\ op' = NoCall
    /\ pc' = "idle"
    /\ stack' = <<>>

\* AwaitGetGroups without lines 360-362: the Map is rebuilt by every call
AwaitGetGroupsAlways(isSet, u, st) ==
    /\ stack' = st
    /\ cached' = TRUE
    /\ groups' = EmptyMap
    /\ pairings' = EmptyMap
    /\ timeNow' = now
    /\ \E o \in Orders(DirectRows(u)) : rows' = [i \in 1..Len(o) |-> DirectRow(u, o[i])]
    /\ nextLookup' = <<>>
    /\ pc' = "rows"

\* lines 359-368, 463-466: `await this.getGroups()` by a caller that resumes with
\* the stack st. When this.groups is set (isSet) the Map is returned as it is;
\* otherwise an empty Map is installed, the clock is read and the direct rows
\* of the table u are fetched, in some order
AwaitGetGroups(isSet, u, st) ==
    /\ stack' = st
    /\ IF isSet
       THEN /\ pc' = "resume"
            /\ cached' = TRUE
            /\ UNCHANGED <<groups, pairings, rows, nextLookup, timeNow>>
       ELSE /\ cached' = TRUE
            /\ groups' = EmptyMap
            /\ pairings' = EmptyMap
            /\ timeNow' = now
            /\ \E o \in Orders(DirectRows(u)) : rows' = [i \in 1..Len(o) |-> DirectRow(u, o[i])]
            /\ nextLookup' = <<>>
            /\ pc' = "rows"

\* a caller outside the class calls getGroups
GetGroups ==
    /\ pc = "idle"
    /\ ret' = NoRet
    /\ op' = [Call("getGroups") EXCEPT !.read = ~cached]
    /\ AwaitGetGroups(cached, ug, <<"getGroups">>)
    /\ UNCHANGED <<repo, ug, now, permCache>>

\* lines 371-448: one iteration of the loop over rows; user_args is held as
\* the first record csvParse gives for it (line 405-406), the args of the group
\* are parsed at line 409 and a rejection by csvParse is not caught
HandleRow ==
    /\ pc = "rows"
    /\ rows # <<>>
    /\ LET row == Head(rows)
           parent == gtable[row.id].parent
       IN IF csvParse(gtable[row.id].args).threw
          THEN /\ Raise("CsvError")
               /\ rows' = <<>>
               /\ nextLookup' = <<>>
               /\ UNCHANGED <<groups, pairings>>
          ELSE /\ groups' = MapSet(groups, row.id, EntryOf(row))
               /\ IF parent # Null
                  THEN /\ nextLookup' = Append(nextLookup, parent)
                       /\ pairings' = Push(pairings, parent, row.id)
                  ELSE UNCHANGED <<nextLookup, pairings>>
               /\ rows' = Tail(rows)
               /\ UNCHANGED <<pc, stack, op, ret>>
    /\ UNCHANGED <<repo, ug, now, cached, permCache, timeNow>>

\* NextLevel giving up when an id of nextLookup is not in the groups table:
\* the expansion ends with the entries set so far
NextLevelAborts ==
    /\ pc = "rows"
    /\ rows = <<>>
    /\ nextLookup # <<>>
    /\ IF Range(nextLookup) \subseteq DOMAIN gtable
       THEN \E o \in Orders(Range(nextLookup)) : rows' = [i \in 1..Len(o) |-> ParentRow(o[i])]
       ELSE rows' = <<>>
    /\ nextLookup' = <<>>
    /\ UNCHANGED <<repo, ug, now, cached, groups, pairings, permCache, pc, stack, op, ret, timeNow>>

\* lines 450-460: after the loop, when ids were pushed, fetch those that exist,
\* in some order, and recurse
NextLevel ==
    /\ pc = "rows"
    /\ rows = <<>>
    /\ nextLookup # <<>>
    /\ \E o \in Orders(Range(nextLookup) \cap DOMAIN gtable) :
          rows' = [i \in 1..Len(o) |-> ParentRow(o[i])]
    /\ nextLookup' = <<>>
    /\ UNCHANGED <<repo, ug, now, cached, groups, pairings, permCache, pc, stack, op, ret, timeNow>>

\* lines 450, 466-467: nothing was pushed: handleRows returns and getGroups
\* returns this.groups to the caller that awaits it
GetGroupsReturn ==
    /\ pc = "rows"
    /\ rows = <<>>
    /\ nextLookup = <<>>
    /\ pc' = "resume"
    /\ UNCHANGED <<repo, ug, now, expansion, permCache, stack, op, ret>>

\* the outside caller of getGroups receives the Map
GetGroupsDone ==
    /\ pc = "resume"
    /\ Head(stack) = "getGroups"
    /\ ret' = Ret("getGroups", "map")
    /\ op' = NoCall
    /\ pc' = "idle"
    /\ stack' = Tail(stack)
    /\ UNCHANGED <<repo, ug, now, expansion, permCache>>

\* getGroups has returned to its outside caller
Returned == pc = "idle" /\ ret.name = "getGroups"

\* ------------------------------------------- getPermissions / hasPermission
\* A permission string is the sequence of its segments (permission.split('.')).
\* The tree this.permissions maps the path of every key below the root object to
\* "leaf" (the value true) or "node" (a nested object).
IsPrefix(p, q) == Len(p) <= Len(q) /\ SubSeq(q, 1, Len(p)) = p

\* `path` is the boolean true, not an object
IsBoolean(t, p) == p # <<>> /\ t[p] = "leaf"

\* line 592 on an object: path[bit] = true replaces what the key held, subtree included
SetLeaf(t, q) ==
    [x \in {y \in DOMAIN t : ~IsPrefix(q, y)} \cup {q} |-> IF x = q THEN "leaf" ELSE t[x]]

\* line 594: path[bit] = {}
SetNode(t, q) == [x \in DOMAIN t \cup {q} |-> IF x = q THEN "node" ELSE t[x]]

\* `bit in path` looks through the prototype chain: on every object it is true
\* for the names Object.prototype defines, and path[bit] is then a built-in function
ObjectPrototype == {"constructor", "toString"}

\* `bit in path` when path is an object of the tree at p
In(t, p, bit) == Append(p, bit) \in DOMAIN t \/ bit \in ObjectPrototype

\* lines 587-597: the loop over the bits of one permission, from bit i with
\* `path` at p. On the boolean true both `path[bit] = true` (strict mode) and
\* `bit in path` raise a TypeError; once path is a built-in function the
\* remaining bits write outside the tree
RECURSIVE InsertBits(_, _, _, _)
InsertBits(t, bits, i, p) ==
    IF IsBoolean(t, p)
    THEN [tree |-> t, threw |-> TRUE]
    ELSE IF i = Len(bits)
         THEN [tree |-> SetLeaf(t, Append(p, bits[i])), threw |-> FALSE]
         ELSE IF Append(p, bits[i]) \notin DOMAIN t /\ bits[i] \in ObjectPrototype
              THEN [tree |-> t, threw |-> FALSE]
              ELSE InsertBits(IF In(t, p, bits[i]) THEN t ELSE SetNode(t, Append(p, bits[i])),
                              bits, i + 1, Append(p, bits[i]))

\* lines 584-598: the loop over rawPermissions; a TypeError leaves the tree as built so far
RECURSIVE Structurize(_, _)
Structurize(t, raw) ==
    IF raw = <<>>
    THEN [tree |-> t, threw |-> FALSE]
    ELSE IF InsertBits(t, Head(raw), 1, <<>>).threw
         THEN InsertBits(t, Head(raw), 1, <<>>)
         ELSE Structurize(InsertBits(t, Head(raw), 1, <<>>).tree, Tail(raw))

\* lines 613-619 once `path` is a built-in function: the names of
\* ObjectPrototype are again functions, any other name is missing and so is '*'
RECURSIVE WalkFunction(_, _)
WalkFunction(bits, i) ==
    IF i > Len(bits)
    THEN "true"
    ELSE IF bits[i] \in ObjectPrototype
         THEN WalkFunction(bits, i + 1)
         ELSE "false"

\* Walk with line 615 returning false: the wildcard is never consulted
RECURSIVE WalkNoWildcard(_, _, _, _)
WalkNoWildcard(t, bits, i, p) ==
    IF i > Len(bits)
    THEN "true"
    ELSE IF IsBoolean(t, p)
         THEN "TypeError"
         ELSE IF ~In(t, p, bits[i])
              THEN "false"
              ELSE IF Append(p, bits[i]) \in DOMAIN t
                   THEN WalkNoWildcard(t, bits, i + 1, Append(p, bits[i]))
                   ELSE WalkFunction(bits, i + 1)

\* lines 611-619: the walk of hasPermission from bit i with `path` at p
RECURSIVE Walk(_, _, _, _)
Walk(t, bits, i, p) ==
    IF i > Len(bits)
    THEN "true"
    ELSE IF IsBoolean(t, p)
         THEN "TypeError"
         ELSE IF ~In(t, p, bits[i])
              THEN IF Append(p, "*") \in DOMAIN t THEN "true" ELSE "false"
              ELSE IF Append(p, bits[i]) \in DOMAIN t
                   THEN Walk(t, bits, i + 1, Append(p, bits[i]))
                   ELSE WalkFunction(bits, i + 1)

\* ActiveGroupIds without the test of line 564: every group of the Map
AllGroupIds == DOMAIN groups

\* lines 562-567: the ids of the groups whose entry is active
ActiveGroupIds == {g \in DOMAIN groups : groups[g].active}

\* lines 569-581: rawPermissions: the rows of groups_permissions for the active
\* groups, then the rows of users_permissions, each query in some order
RawPermissions ==
    LET gp == {<<g, p>> : g \in ActiveGroupIds, p \in UNION {gperms[h] : h \in ActiveGroupIds}}
        grows == {x \in gp : x[2] \in gperms[x[1]]}
    IN {[i \in 1..Len(a) |-> a[i][2]] \o b : a \in Orders(grows), b \in Orders(uperms)}

\* lines 552-561: `await this.getPermissions()` by a caller that resumes with the
\* stack st: a set this.permissions is returned as it is; otherwise an empty
\* object is installed and getGroups is awaited
AwaitGetPermissions(st) ==
    IF permsCached
    THEN /\ pc' = "resume"
         /\ stack' = st
         /\ UNCHANGED <<permCache, expansion>>
    ELSE /\ permsCached' = TRUE
         /\ permissions' = EmptyMap
         /\ AwaitGetGroups(cached, ug, <<"getPermissions:561">> \o st)

GetPermissions ==
    /\ pc = "idle"
    /\ ret' = NoRet
    /\ op' = [Call("getPermissions") EXCEPT !.read = ~permsCached]
    /\ AwaitGetPermissions(<<"getPermissions">>)
    /\ UNCHANGED <<repo, ug, now>>

\* lines 562-600: getPermissions after getGroups returned: collect and structurize.
\* A TypeError ends the top-level call; this.permissions keeps what was built
StructurizePermissions ==
    /\ pc = "resume"
    /\ Head(stack) = "getPermissions:561"
    /\ \E raw \in RawPermissions :
          /\ permissions' = Structurize(permissions, raw).tree
          /\ IF Structurize(permissions, raw).threw
             THEN /\ ret' = Ret(op.name, "TypeError")
                  /\ op' = NoCall
                  /\ pc' = "idle"
                  /\ stack' = <<>>
             ELSE /\ pc' = "resume"
                  /\ stack' = Tail(stack)
                  /\ UNCHANGED <<op, ret>>
    /\ UNCHANGED <<repo, ug, now, expansion, permsCached>>

GetPermissionsDone ==
    /\ pc = "resume"
    /\ Head(stack) = "getPermissions"
    /\ ret' = Ret("getPermissions", "tree")
    /\ op' = NoCall
    /\ pc' = "idle"
    /\ stack' = Tail(stack)
    /\ UNCHANGED <<repo, ug, now, expansion, permCache>>

\* line 608-609: hasPermission(query) awaits getPermissions
HasPermission(query) ==
    /\ pc = "idle"
    /\ ret' = NoRet
    /\ op' = [Call("hasPermission") EXCEPT !.query = query, !.read = ~permsCached]
    /\ AwaitGetPermissions(<<"hasPermission">>)
    /\ UNCHANGED <<repo, ug, now>>

\* lines 611-619
HasPermissionDone ==
    /\ pc = "resume"
    /\ Head(stack) = "hasPermission"
    /\ ret' = Ret("hasPermission", Walk(permissions, op.query, 1, <<>>))
    /\ op' = NoCall
    /\ pc' = "idle"
    /\ stack' = Tail(stack)
    /\ UNCHANGED <<repo, ug, now, expansion, permCache>>

\* ------------------------------------------- endGroupMembership / addToGroup
\* line 475-480: endGroupMembership(group) awaits getGroups
EndGroupMembership(g) ==
    /\ pc = "idle"
    /\ ret' = NoRet
    /\ op' = [Call("endGroupMembership") EXCEPT !.gid = g, !.read = ~cached]
    /\ AwaitGetGroups(cached, ug, <<"endGroupMembership:480">>)
    /\ UNCHANGED <<repo, ug, now, permCache>>

\* EndedRows as a hard delete: the rows of the group are removed
EndedRowsDeleted(u, g, t) == SelectSeq(u, LAMBDA r : r.gid # g)

\* line 485-486: update users_groups set `to` = ? where user_id = ? and group_id = ?
EndedRows(u, g, t) == [i \in 1..Len(u) |-> IF u[i].gid = g THEN [u[i] EXCEPT !.to = t] ELSE u[i]]

\* EndGroupMembershipUpdate without line 481: the rows are ended and the Map
\* is rebuilt whether or not the group is in the Map
EndGroupMembershipUpdateAlways ==
    /\ pc = "resume"
    /\ Head(stack) = "endGroupMembership:480"
    /\ ug' = EndedRows(ug, op.gid, now)
    /\ AwaitGetGroups(FALSE, EndedRows(ug, op.gid, now), <<"endGroupMembership:490">>)
    /\ op' = [op EXCEPT !.read = TRUE]
    /\ UNCHANGED <<repo, now, permCache, ret>>

\* lines 481-490: false when the group is not in the map; otherwise the rows are
\* ended, this.groups is unset and getGroups is awaited again
EndGroupMembershipUpdate ==
    /\ pc = "resume"
    /\ Head(stack) = "endGroupMembership:480"
    /\ IF op.gid \notin DOMAIN groups
       THEN /\ ret' = Ret("endGroupMembership", "false")
            /\ op' = NoCall
            /\ pc' = "idle"
            /\ stack' = Tail(stack)
            /\ UNCHANGED <<ug, expansion>>
       ELSE /\ ug' = EndedRows(ug, op.gid, now)
            /\ AwaitGetGroups(FALSE, EndedRows(ug, op.gid, now), <<"endGroupMembership:490">>)
            /\ op' = [op EXCEPT !.read = TRUE]
            /\ UNCHANGED ret
    /\ UNCHANGED <<repo, now, permCache>>

\* line 492
EndGroupMembershipDone ==
    /\ pc = "resume"
    /\ Head(stack) = "endGroupMembership:490"
    /\ ret' = Ret("endGroupMembership", "true")
    /\ op' = NoCall
    /\ pc' = "idle"
    /\ stack' = Tail(stack)
    /\ UNCHANGED <<repo, ug, now, expansion, permCache>>

\* Group.addUser (./group, not among the sources): refuses when the group does
\* not permit members, otherwise inserts a users_groups row
AddUser(u, g, args, from, to) ==
    IF gtable[g].membersAllowed
    THEN [added |-> TRUE, rows |-> Append(u, [gid |-> g, from |-> from, to |-> to, args |-> args])]
    ELSE [added |-> FALSE, rows |-> u]

\* lines 503-514: addToGroup(group, args, timeFrom, timeTo); an undefined
\* timeFrom (Null) is the clock; group.addUser is awaited
AddToGroupArgs(g, args, from, to) ==
    /\ pc = "idle"
    /\ Len(ug) < MaxUg
    /\ ret' = NoRet
    /\ LET timeFrom == IF from = Null THEN now ELSE from
       IN /\ op' = [Call("addToGroup") EXCEPT !.gid = g, !.args = args, !.from = timeFrom, !.to = to,
                                              !.added = AddUser(ug, g, args, timeFrom, to).added]
          /\ ug' = AddUser(ug, g, args, timeFrom, to).rows
    /\ pc' = "resume"
    /\ stack' = <<"addToGroup:514">>
    /\ UNCHANGED <<repo, now, expansion, permCache>>

\* line 503: args defaults to []
AddToGroup(g, from, to) == AddToGroupArgs(g, <<>>, from, to)

\* AddToGroupAdded without line 515: the refusal of group.addUser is ignored
AddToGroupAddedAnyway ==
    /\ pc = "resume"
    /\ Head(stack) = "addToGroup:514"
    /\ op' = [op EXCEPT !.active = IsActive(op.from, op.to, now), !.read = ~cached]
    /\ AwaitGetGroups(cached, ug, <<"addToGroup:531">>)
    /\ UNCHANGED <<repo, ug, now, permCache, ret>>

\* lines 515-531: false when the user was not added; otherwise active is
\* computed from the clock and getGroups is awaited
AddToGroupAdded ==
    /\ pc = "resume"
    /\ Head(stack) = "addToGroup:514"
    /\ IF ~op.added
       THEN /\ ret' = Ret("addToGroup", "false")
            /\ op' = NoCall
            /\ pc' = "idle"
            /\ stack' = Tail(stack)
            /\ UNCHANGED expansion
       ELSE /\ op' = [op EXCEPT !.active = IsActive(op.from, op.to, now), !.read = ~cached]
            /\ AwaitGetGroups(cached, ug, <<"addToGroup:531">>)
            /\ UNCHANGED ret
    /\ UNCHANGED <<repo, ug, now, permCache>>

\* lines 532-545: the entry of the group is set in the Map getGroups returned
AddToGroupPatch ==
    /\ pc = "resume"
    /\ Head(stack) = "addToGroup:531"
    /\ groups' = MapSet(groups, op.gid,
                        [name |-> nameForUser(gtable[op.gid].nameBase,
                                              gtable[op.gid].nameDisplay, op.args),
                         from |-> op.from, to |-> op.to, active |-> op.active,
                         direct |-> TRUE, children |-> FALSE])
    /\ ret' = Ret("addToGroup", "group")
    /\ op' = NoCall
    /\ pc' = "idle"
    /\ stack' = Tail(stack)
    /\ UNCHANGED <<repo, ug, now, cached, pairings, rows, nextLookup, timeNow, permCache>>

\* the clock advances
Tick ==
    /\ now < MaxNow
    /\ now' = now + 1
    /\ UNCHANGED <<repo, ug, expansion, permCache, pc, stack, op, ret>>

\* ------------------------------------------------ drawn repositories
Groups == 1..NumGroups
Times == 1..MaxTime
RowVals == [gid : Groups, from : Times, to : Times \cup {Null}, args : {<<>>}]
RowKey(r) == (r.gid * (MaxTime + 1) + r.from) * (MaxTime + 1) + r.to

\* group tables without a cycle, numbered so that a parent has the larger id
AcyclicTables ==
    {t \in [Groups -> [parent : Groups \cup {Null}, membersAllowed : {TRUE}, args : {""}, nameBase : {NameBase}, nameDisplay : {NoTemplate}]] :
        \A g \in Groups : t[g].parent = Null \/ t[g].parent > g}

\* stored rows, one representative per multiset (the order rows are returned in
\* is drawn by the query)
RowSeqs ==
    UNION {{s \in [1..n -> RowVals] : \A i \in 1..(n - 1) : RowKey(s[i]) <= RowKey(s[i + 1])} :
              n \in 0..MaxRows}

\* the Board / Committee repository of the end-to-end scenario
BoardTable ==
    (5 :> [parent |-> Null, membersAllowed |-> TRUE, args |-> "", nameBase |-> NameBase, nameDisplay |-> NoTemplate]) @@
    (7 :> [parent |-> 5, membersAllowed |-> TRUE, args |-> "", nameBase |-> NameBase, nameDisplay |-> NoTemplate])

BoardRows ==
    <<[gid |-> 5, from |-> 1000, to |-> Null, args |-> <<>>], [gid |-> 7, from |-> 2000, to |-> 3000, args |-> <<>>]>>

\* the same repository when the user is a member of Committee alone
CommitteeRows == <<[gid |-> 7, from |-> 2000, to |-> 3000, args |-> <<>>]>>

InitObject ==
    /\ cached = FALSE
    /\ groups = EmptyMap
    /\ pairings = EmptyMap
    /\ permsCached = FALSE
    /\ permissions = EmptyMap
    /\ pc = "idle"
    /\ stack = <<>>
    /\ op = NoCall
    /\ ret = NoRet
    /\ rows = <<>>
    /\ nextLookup = <<>>
    /\ timeNow = Null

NoPermissions == gperms = [g \in DOMAIN gtable |-> {}] /\ uperms = {}

InitExpand ==
    /\ \/ /\ gtable \in AcyclicTables
          /\ ug \in RowSeqs
          /\ now \in 0..(MaxTime + 1)
       \/ /\ gtable = BoardTable
          /\ ug \in {BoardRows, CommitteeRows}
          /\ now = 2500
    /\ NoPermissions
    /\ InitObject

NextExpand == GetGroups \/ HandleRow \/ NextLevel \/ GetGroupsReturn \/ GetGroupsDone

SpecExpand == InitExpand /\ [][NextExpand]_vars

\* group tables with any parent pointers, cycles included
AnyTables == [Groups -> [parent : Groups \cup {Null}, membersAllowed : {TRUE}, args : {""}, nameBase : {NameBase}, nameDisplay : {NoTemplate}]]

InitCyclic ==
    /\ gtable \in AnyTables
    /\ ug \in [1..1 -> RowVals]
    /\ now \in Times
    /\ NoPermissions
    /\ InitObject

\* the steps of a call in progress: an async function whose awaited promise has
\* resolved is resumed by the event loop
Running == HandleRow \/ NextLevel \/ GetGroupsReturn \/ GetGroupsDone

SpecCyclic == InitCyclic /\ [][NextExpand]_vars /\ WF_vars(Running)

\* ------------------------------------------------ the merge law of windows
\* the windows a set of entries or stored rows contributes
WindowsOfEntries(S) == {[from |-> groups[c].from, to |-> groups[c].to] : c \in S}
WindowsOfRows(I) == {[from |-> ug[i].from, to |-> ug[i].to] : i \in I}

\* minimum timeFrom; timeTo null if any window has no expiry, otherwise the maximum
LawFrom(W) == MinOf({w.from : w \in W})
LawTo(W) == IF \E w \in W : w.to = Null THEN Null ELSE MaxOf({w.to : w \in W})
HasWindow(g, W) == groups[g].from = LawFrom(W) /\ groups[g].to = LawTo(W)

\* the entries of the map whose group has g as its parent
KidsOf(g) == {c \in DOMAIN groups : gtable[c].parent = g}
\* the stored rows of the user in group g
RowsOf(g) == {i \in 1..Len(ug) : ug[i].gid = g}

\* C1: a group P held directly, with a directly held child C, resolves to its own
\* direct window merged with the window inherited through C; in the Board /
\* Committee repository at now = 2500, Board = (1000, null) active and
\* Committee = (2000, 3000) active.
C1_DirectParentKeepsOwnWindow ==
    Returned =>
        /\ \A P \in DOMAIN groups :
              (RowsOf(P) # {} /\ \E C \in KidsOf(P) : RowsOf(C) # {})
                  => HasWindow(P, WindowsOfRows(RowsOf(P)) \cup WindowsOfEntries(KidsOf(P)))
        /\ (gtable = BoardTable /\ ug = BoardRows /\ timeNow = 2500)
              => /\ groups[5].from = 1000 /\ groups[5].to = Null /\ groups[5].active
                 /\ groups[7].from = 2000 /\ groups[7].to = 3000 /\ groups[7].active

\* C2: when getGroups has returned on an acyclic hierarchy, every group that
\* has child entries in the map has timeFrom = the minimum of the children's
\* timeFrom and timeTo = null if a child has no expiry, otherwise the maximum
\* of the children's timeTo.
C2_AncestorWindowIsMergeOfChildren ==
    Returned =>
        \A g \in DOMAIN groups :
            KidsOf(g) # {} => HasWindow(g, WindowsOfEntries(KidsOf(g)))

\* C2 witness: an ancestor with a directly held child and an inherited child
\* (children at different depths) whose windows differ, and the spec's example
\* shape: an expiring child and a child without expiry give a window without expiry
C2_Witness ==
    /\ Returned
    /\ \E g \in DOMAIN groups : \E a, c \in KidsOf(g) :
          /\ groups[a].direct /\ ~groups[c].direct
          /\ groups[a].to # Null /\ groups[c].to = Null
          /\ groups[c].from < groups[a].from
          /\ groups[g].from = groups[c].from /\ groups[g].to = Null

\* C3: several stored rows of the same group (and no child entry) resolve to one
\* entry with the minimum timeFrom and timeTo = null if any row has no expiry,
\* otherwise the maximum timeTo, whatever order the rows are returned in.
C3_DuplicateRowsMerge ==
    Returned =>
        \A g \in DOMAIN groups :
            (RowsOf(g) # {} /\ KidsOf(g) = {}) => HasWindow(g, WindowsOfRows(RowsOf(g)))

\* C4: getGroups terminates for every finite group table, cycles included:
\* a call that has started its expansion returns.
C4_GetGroupsTerminates == (pc = "rows") ~> Returned

\* ------------------------------------------------ drawn permission rows
GrantSegs == {"reports", "export", "*"}
QuerySegs == {"reports", "export", "csv", "other"}
Strings(segs) == UNION {[1..n -> segs] : n \in 1..MaxDepth}
GrantSets == {Range(s) : s \in UNION {[1..n -> Strings(GrantSegs)] : n \in 0..MaxGrants}}

\* a user without memberships whose grants are rows of users_permissions
InitPerm ==
    /\ gtable = EmptyMap
    /\ gperms = EmptyMap
    /\ uperms \in GrantSets
    /\ ug = <<>>
    /\ now = 1
    /\ InitObject

NextPerm ==
    \/ GetPermissions
    \/ \E q \in Strings(QuerySegs) : HasPermission(q)
    \/ GetGroupsReturn
    \/ StructurizePermissions
    \/ GetPermissionsDone
    \/ HasPermissionDone

SpecPerm == InitPerm /\ [][NextPerm]_vars

\* ------------------------------------------------ the user object in use
\* Board (5) and its child Committee (7) permit members; Staff (9) does not
DemoTable ==
    (5 :> [parent |-> Null, membersAllowed |-> TRUE, args |-> "", nameBase |-> NameBase, nameDisplay |-> NoTemplate]) @@
    (7 :> [parent |-> 5, membersAllowed |-> TRUE, args |-> "", nameBase |-> NameBase, nameDisplay |-> NoTemplate]) @@
    (9 :> [parent |-> Null, membersAllowed |-> FALSE, args |-> "", nameBase |-> NameBase, nameDisplay |-> NoTemplate])

DemoGroupPermissions ==
    (5 :> {<<"reports", "*">>}) @@ (7 :> {<<"other", "export">>}) @@ (9 :> {})

DemoQueries == {<<"reports", "export">>, <<"other", "export">>}

\* the user starts without memberships or as a member of Committee
DemoRows == {<<>>, <<[gid |-> 7, from |-> 1, to |-> Null, args |-> <<>>]>>}

Init ==
    /\ gtable = DemoTable
    /\ gperms = DemoGroupPermissions
    /\ uperms = {}
    /\ ug \in DemoRows
    /\ now = 1
    /\ InitObject

Next ==
    \/ GetGroups
    \/ HandleRow
    \/ NextLevel
    \/ GetGroupsReturn
    \/ GetGroupsDone
    \/ GetPermissions
    \/ StructurizePermissions
    \/ GetPermissionsDone
    \/ \E q \in DemoQueries : HasPermission(q)
    \/ HasPermissionDone
    \/ \E g \in DOMAIN gtable : EndGroupMembership(g)
    \/ EndGroupMembershipUpdate
    \/ EndGroupMembershipDone
    \/ \E g \in DOMAIN gtable : \E to \in {Null} \cup (1..MaxNow) : AddToGroup(g, Null, to)
    \/ AddToGroupAdded
    \/ AddToGroupPatch
    \/ Tick

Spec == Init /\ [][Next]_vars

\* hasPermission(q) has returned v
Answered(q, v) ==
    pc = "idle" /\ ret.name = "hasPermission" /\ ret.query = q /\ ret.val = v

\* hasPermission(q) has returned, with another value than v
AnsweredNot(q, v) ==
    pc = "idle" /\ ret.name = "hasPermission" /\ ret.query = q /\ ret.val # v

\* C7: with "P.*" among the grants, hasPermission("P.x") and
\* hasPermission("P.x.y") return true whatever else is granted.
C7_WildcardCoversPrefix ==
    \A P \in GrantSegs : \A q \in Strings(QuerySegs) :
        (<<P, "*">> \in uperms /\ Len(q) >= 2 /\ q[1] = P) => ~AnsweredNot(q, "true")

\* C8: when the only grant is "reports.*", hasPermission("reports.export") and
\* hasPermission("reports.export.csv") return true and
\* hasPermission("other.export") returns false.
C8_WildcardLaw ==
    uperms = {<<"reports", "*">>} =>
        /\ ~AnsweredNot(<<"reports", "export">>, "true")
        /\ ~AnsweredNot(<<"reports", "export", "csv">>, "true")
        /\ ~AnsweredNot(<<"other", "export">>, "false")

C8_Witness ==
    /\ uperms = {<<"reports", "*">>}
    /\ Answered(<<"reports", "export", "csv">>, "true")

\* C9: when the only grant is "reports.export", hasPermission("reports.export")
\* returns true and hasPermission("reports") returns false; a query that is a
\* proper prefix of a granted string, with no grant of the prefix itself and no
\* wildcard granted, is not authorized.
C9_PrefixNotAuthorized ==
    /\ uperms = {<<"reports", "export">>} =>
          /\ ~AnsweredNot(<<"reports", "export">>, "true")
          /\ ~AnsweredNot(<<"reports">>, "false")
    /\ \A q \in Strings(QuerySegs) :
          (/\ \E g \in uperms : IsPrefix(q, g) /\ q # g
           /\ \A g \in uperms : \A i \in 1..Len(g) : g[i] # "*")
              => ~Answered(q, "true")

\* C10: when the only grant is "reports.export", hasPermission("reports.export.csv")
\* returns true; a query that extends a granted leaf by further segments returns true.
C10_DeeperThanLeaf ==
    \A q \in Strings(QuerySegs) :
        (\E g \in uperms : uperms = {g} /\ IsPrefix(g, q) /\ q # g) => ~AnsweredNot(q, "true")

\* ------------------------------------------------ claims about the caches
\* the groups a full expansion of the rows u reaches: the groups of the rows
\* and their ancestors that exist
RECURSIVE UpClosure(_)
UpClosure(S) ==
    IF ({gtable[g].parent : g \in S} \cap DOMAIN gtable) \subseteq S
    THEN S
    ELSE UpClosure(S \cup ({gtable[g].parent : g \in S} \cap DOMAIN gtable))

Reached(u) == UpClosure({u[i].gid : i \in DirectRows(u)})

\* the window a full expansion of the rows u over an acyclic table gives group g:
\* the merge of the windows of its reached children when it has any (C2), and
\* otherwise lines 375-384 over its rows (null only if no row has an expiry)
RECURSIVE FullWindow(_, _)
FullWindow(g, u) ==
    LET kids == {c \in Reached(u) : gtable[c].parent = g}
        own == {i \in 1..Len(u) : u[i].gid = g}
        W == {FullWindow(c, u) : c \in kids}
    IN IF kids # {}
       THEN [from |-> LawFrom(W), to |-> LawTo(W), direct |-> FALSE]
       ELSE [from |-> MinOf({u[i].from : i \in own}),
             to |-> IF \A i \in own : u[i].to = Null
                    THEN Null
                    ELSE MaxOf({u[i].to : i \in own}),
             direct |-> TRUE]

\* this.groups holds what a full expansion of the stored rows yields: the same
\* groups, windows and direct flags
MapIsFullExpansion ==
    /\ DOMAIN groups = Reached(ug)
    /\ \A g \in DOMAIN groups :
          /\ groups[g].from = FullWindow(g, ug).from
          /\ groups[g].to = FullWindow(g, ug).to
          /\ groups[g].direct = FullWindow(g, ug).direct

\* getGroups on a user object without a cached map returns the full expansion
FullExpansionLemma == Returned => MapIsFullExpansion

Succeeded(name, val) == pc = "idle" /\ ret.name = name /\ ret.val = val

\* C5: once endGroupMembership has returned true or addToGroup has succeeded,
\* no permission tree is cached: the next getPermissions / hasPermission
\* rebuilds it from the repository.
C5_PermissionTreeDiscarded ==
    (Succeeded("endGroupMembership", "true") \/ Succeeded("addToGroup", "group"))
        => ~permsCached

\* C6: once addToGroup has succeeded, the map the next getGroups returns is the
\* full expansion of the stored rows, ancestors of the joined group included,
\* whether or not a map was cached before the call.
C6_GroupMapReexpanded ==
    (Succeeded("addToGroup", "group") /\ cached) => MapIsFullExpansion

\* ------------------------------------------------ claims about the group cache
\* C11: of two consecutive getGroups calls on the same user object, the second
\* returns the Map the first installed (this.groups is not reassigned and the
\* Map is not written) and queries no table.
C11_SecondCallReturnsCachedMap ==
    [][/\ (Returned /\ op'.name = "getGroups")
            => /\ UNCHANGED <<cached, groups, pairings>>
               /\ ~op'.read
               /\ pc' = "resume"
       /\ (pc = "resume" /\ Head(stack) = "getGroups" /\ ~op.read)
            => /\ UNCHANGED <<cached, groups, pairings>>
               /\ Returned'
               /\ ret'.val = "map" /\ ~ret'.read]_vars

\* C11 witness: a second getGroups has returned a filled Map without a query
C11_Witness == Returned /\ ~ret.read /\ groups # EmptyMap

\* lines 359-362 for a second caller, while the running call is suspended at an
\* await of handleRows (csvParse, lines 405 and 409, before the entry of the
\* current row is set): this.groups is set, and the Map is returned as it is
GetGroupsWhileExpanding ==
    /\ pc = "rows"
    /\ rows # <<>>
    /\ cached
    /\ ret' = [NoRet EXCEPT !.name = "getGroups", !.val = "map"]
    /\ UNCHANGED <<repo, ug, now, expansion, permCache, pc, stack, op>>

NextConcurrent == NextExpand \/ GetGroupsWhileExpanding

SpecConcurrent == InitExpand /\ [][NextConcurrent]_vars

\* C12: every getGroups call that returns, a call that started while another
\* call was still expanding included, returns a Map that holds an entry for
\* every group of the complete expansion.
C12_ConcurrentCallSeesCompleteMap ==
    (ret.name = "getGroups" /\ ret.val = "map") => Reached(ug) \subseteq DOMAIN groups

\* ------------------------------------------------ failures during the expansion
\* line 463-464 raising (the database cannot be read): this.groups already
\* holds the empty Map of line 364
GetGroupsFails ==
    /\ pc = "idle"
    /\ ~cached
    /\ cached' = TRUE
    /\ groups' = EmptyMap
    /\ pairings' = EmptyMap
    /\ timeNow' = now
    /\ ret' = [NoRet EXCEPT !.name = "getGroups", !.val = "SqliteError", !.read = TRUE]
    /\ UNCHANGED <<repo, ug, now, rows, nextLookup, permCache, pc, stack, op>>

\* line 453-454 raising: the entries set so far stay in this.groups
NextLevelFails ==
    /\ pc = "rows"
    /\ rows = <<>>
    /\ nextLookup # <<>>
    /\ Raise("SqliteError")
    /\ nextLookup' = <<>>
    /\ UNCHANGED <<repo, ug, now, cached, groups, pairings, rows, timeNow, permCache>>

\* acyclic group tables whose args column holds a text csv-parse accepts or rejects
ArgTexts == {"", Malformed}
TablesWithArgs ==
    {t \in [Groups -> [parent : Groups \cup {Null}, membersAllowed : {TRUE}, args : ArgTexts, nameBase : {NameBase}, nameDisplay : {NoTemplate}]] :
        \A g \in Groups : t[g].parent = Null \/ t[g].parent > g}

InitFaults ==
    /\ gtable \in TablesWithArgs
    /\ ug \in RowSeqs
    /\ now = 1
    /\ NoPermissions
    /\ InitObject

NextFaults == NextExpand \/ GetGroupsFails \/ NextLevelFails

SpecFaults == InitFaults /\ [][NextFaults]_vars

\* C13: this.groups is written only when an expansion completes: after a call
\* that raised (a query failed, an args text was rejected) no Map is cached, and
\* the Map a getGroups call returns holds every group of the full expansion.
C13_CacheOnlyAfterCompletion ==
    /\ (pc = "idle" /\ ret.val \in {"SqliteError", "CsvError"}) => ~cached
    /\ Returned => Reached(ug) \subseteq DOMAIN groups

\* the expansion over tables with malformed args, every query succeeding
SpecArgs == InitFaults /\ [][NextExpand]_vars

\* C18: an args text that cannot be parsed does not make getGroups raise: the
\* call returns the Map, with an entry for every group of the full expansion.
C18_MalformedArgsDoNotRaise ==
    /\ ~(pc = "idle" /\ ret.name = "getGroups" /\ ret.val = "CsvError")
    /\ Returned => Reached(ug) \subseteq DOMAIN groups

\* ------------------------------------------------ claims about the permission tree
\* the keys of the tree that hold the value true
Leaves(t) == {p \in DOMAIN t : t[p] = "leaf"}

\* the permission strings of the user and of the groups whose entry is active
GrantedNow == uperms \cup UNION {gperms[g] : g \in {h \in DOMAIN groups : groups[h].active}}

\* C14: when getPermissions builds the tree, every permission it inserts is
\* granted to the user or to a group whose entry in the Map is active, and
\* unless the build raises every such permission is covered by the tree; a
\* permission granted only to groups whose entry is inactive is not inserted.
C14_OnlyActiveGroupsGrant ==
    [][(pc = "resume" /\ Head(stack) = "getPermissions:561" /\ stack' # stack)
          => /\ Leaves(permissions') \subseteq GrantedNow
             /\ pc' # "idle" =>
                    \A p \in GrantedNow : \E q \in Leaves(permissions') : IsPrefix(q, p)]_vars

\* C14 witness: a tree just built holds the permissions of an active group and
\* none of a group of the Map whose entry is inactive
C14_Witness ==
    /\ pc = "resume" /\ op.read
    /\ Head(stack) \in {"getPermissions", "hasPermission"}
    /\ \E g, h \in DOMAIN groups :
          /\ ~groups[g].active /\ gperms[g] # {} /\ gperms[g] \cap DOMAIN permissions = {}
          /\ groups[h].active /\ gperms[h] # {} /\ gperms[h] \subseteq Leaves(permissions)

\* ------------------------------------------------ claims about the entries
\* the rule of the active flag: inactive before timeFrom and after a non-null timeTo
Inactive(from, to, t) == from > t \/ (to # Null /\ to < t)

BuiltinQueries == Strings(QuerySegs \cup ObjectPrototype)

InitNoMemberships ==
    /\ gtable = DemoTable
    /\ gperms = DemoGroupPermissions
    /\ uperms = {}
    /\ ug = <<>>
    /\ now = 1
    /\ InitObject

NextNoMemberships ==
    \/ GetGroups
    \/ GetGroupsReturn
    \/ GetGroupsDone
    \/ GetPermissions
    \/ \E q \in BuiltinQueries : HasPermission(q)
    \/ StructurizePermissions
    \/ GetPermissionsDone
    \/ HasPermissionDone

SpecNoMemberships == InitNoMemberships /\ [][NextNoMemberships]_vars

\* C16: for a user without stored memberships and without individual grants,
\* getGroups returns an empty Map and hasPermission returns false for every
\* path, paths made of names of built-in object properties included.
C16_NoMembershipsNoPermissions ==
    /\ Returned => groups = EmptyMap
    /\ (pc = "idle" /\ ret.name = "hasPermission") => ret.val = "false"

\* C17: when the only stored membership is in a group C whose parent P exists,
\* getGroups yields an entry for P with direct = false, children = [C] and the
\* window of the membership, and the entry of C with direct = true and
\* children = null; for Committee (7) alone under Board (5), at now = 2500,
\* Board = (2000, 3000) inherited through [7].
C17_InheritedParentEntry ==
    Returned =>
        /\ \A C \in DOMAIN gtable :
              (Len(ug) = 1 /\ ug[1].gid = C /\ gtable[C].parent \in DOMAIN gtable)
                  => LET P == gtable[C].parent
                     IN /\ ~groups[P].direct
                        /\ groups[P].children /\ pairings[P] = <<C>>
                        /\ groups[P].from = ug[1].from /\ groups[P].to = ug[1].to
                        /\ groups[C].direct /\ ~groups[C].children
                        /\ groups[C].from = ug[1].from /\ groups[C].to = ug[1].to
        /\ (gtable = BoardTable /\ ug = CommitteeRows)
              => /\ groups[5] = [name |-> NameBase, from |-> 2000, to |-> 3000, active |-> TRUE,
                                 direct |-> FALSE, children |-> TRUE]
                 /\ pairings[5] = <<7>>
                 /\ groups[7] = [name |-> NameBase, from |-> 2000, to |-> 3000, active |-> TRUE,
                                 direct |-> TRUE, children |-> FALSE]

\* C17 witness: getGroups has returned for the member of Committee alone
C17_Witness ==
    /\ Returned /\ ret.read
    /\ gtable = BoardTable /\ ug = CommitteeRows
    /\ DOMAIN groups = {5, 7}

\* ------------------------------------------------ parent pointers to deleted groups
\* an id that no row of the groups table carries
Gone == NumGroups + 1

\* acyclic group tables in which a parent pointer may name the deleted group
DanglingTables ==
    {t \in [Groups -> [parent : Groups \cup {Null, Gone}, membersAllowed : {TRUE}, args : {""}, nameBase : {NameBase}, nameDisplay : {NoTemplate}]] :
        \A g \in Groups : t[g].parent = Null \/ t[g].parent > g}

InitDangling ==
    /\ gtable \in DanglingTables
    /\ ug \in RowSeqs
    /\ now = 1
    /\ NoPermissions
    /\ InitObject

SpecDangling == InitDangling /\ [][NextExpand]_vars

\* C19: when a parent pointer names a group that is not in the repository,
\* getGroups does not raise and returns the full expansion of the groups that
\* exist: every other reachable group with the window it has when the pointer
\* leads nowhere, and no entry for the missing id.
C19_MissingParentIsSkipped ==
    /\ (pc = "idle" /\ ret.name = "getGroups") => ret.val = "map"
    /\ Returned => (MapIsFullExpansion /\ Gone \notin DOMAIN groups)

\* C19 witness: one batched lookup asked for the missing id and for an existing
\* parent, and the call has returned with the entry of that parent
C19_Witness ==
    /\ Returned /\ ret.read
    /\ \E g, c \in DOMAIN groups :
          /\ groups[g].direct /\ gtable[g].parent = Gone
          /\ groups[c].direct /\ gtable[c].parent \in DOMAIN groups

\* ------------------------------------------------ claims about addToGroup
\* C20: addToGroup on a group that does not permit direct members returns
\* false, and neither the call nor its return changes the stored membership
\* rows, the cached Map or the cached permission tree.
C20_RefusalChangesNothing ==
    [][/\ (pc = "idle" /\ op'.name = "addToGroup" /\ ~gtable[op'.gid].membersAllowed)
            => UNCHANGED <<ug, cached, groups, pairings, permsCached, permissions>>
       /\ (/\ pc = "resume" /\ Head(stack) = "addToGroup:514" /\ stack' # stack
           /\ ~gtable[op.gid].membersAllowed)
            => /\ pc' = "idle" /\ ret'.name = "addToGroup" /\ ret'.val = "false"
               /\ UNCHANGED <<ug, cached, groups, pairings, permsCached, permissions>>]_vars

\* C20 witness: addToGroup(Staff) has returned false on a user object that
\* holds a filled Map and a filled permission tree
C20_Witness ==
    /\ Succeeded("addToGroup", "false") /\ ret.gid = 9
    /\ cached /\ groups # EmptyMap
    /\ permsCached /\ permissions # EmptyMap

\* ------------------------------------------------ claims about endGroupMembership
\* C21: endGroupMembership on a group that is not in the Map getGroups returns
\* gives false; the call writes no membership row, leaves the permission tree
\* as it is, and a Map that was cached stays the Map that is cached.
C21_NotAMemberChangesNothing ==
    [][/\ (pc = "idle" /\ op'.name = "endGroupMembership")
            => /\ UNCHANGED <<ug, permsCached, permissions>>
               /\ cached => UNCHANGED <<cached, groups, pairings>>
       /\ (/\ pc = "resume" /\ Head(stack) = "endGroupMembership:480" /\ stack' # stack
           /\ op.gid \notin DOMAIN groups)
            => /\ pc' = "idle" /\ ret'.name = "endGroupMembership" /\ ret'.val = "false"
               /\ UNCHANGED <<ug, cached, groups, pairings, permsCached, permissions>>]_vars

\* C21 witness: endGroupMembership has returned false for a group outside the
\* filled Map of a user object that holds a permission tree and stored rows
C21_Witness ==
    /\ Succeeded("endGroupMembership", "false") /\ ~ret.read
    /\ ret.gid \notin DOMAIN groups
    /\ groups # EmptyMap /\ permsCached /\ ug # <<>>


MaxTokens == 3
MaxArgs == 2

\* the tokens of the drawn templates and the values of the drawn arguments
Words == {"$1", "$2", "$3", "of"}
ArgValues == {"Ana", "$2", "$&"}
IsPlaceholder(w) == w \in {Key(i) : i \in 1..(MaxTokens + MaxArgs)}

\* name_display of a group: no template, or a text in which every placeholder
\* occurs at most once
Templates ==
    {t \in UNION {[1..n -> Words] : n \in 0..MaxTokens} :
        \A j, k \in 1..Len(t) : (j # k /\ t[j] = t[k]) => ~IsPlaceholder(t[j])}

\* the args of a membership (users_groups.args, the args of addToGroup)
ArgLists == UNION {[1..n -> ArgValues] : n \in 0..MaxArgs}

\* Board (5) with the template "$1 of", Committee (7, parent 5) with a drawn one
NamedTable(t) ==
    (5 :> [parent |-> Null, membersAllowed |-> TRUE, args |-> "", nameBase |-> NameBase,
           nameDisplay |-> <<"$1", "of">>]) @@
    (7 :> [parent |-> 5, membersAllowed |-> TRUE, args |-> "", nameBase |-> NameBase,
           nameDisplay |-> t])

\* a user object of a member of Committee whose membership carries drawn args
InitNames ==
    /\ \E t \in Templates : gtable = NamedTable(t)
    /\ \E a \in ArgLists : ug = <<[gid |-> 7, from |-> 1, to |-> Null, args |-> a]>>
    /\ now = 1
    /\ NoPermissions
    /\ InitObject

NextNames ==
    \/ NextExpand
    \/ \E a \in ArgLists : AddToGroupArgs(5, a, Null, Null)
    \/ AddToGroupAdded
    \/ AddToGroupPatch

SpecNames == InitNames /\ [][NextNames]_vars

\* the name the rule gives: nameBase when there is no template, otherwise the
\* template with every placeholder $i, i up to the number of args, replaced by
\* argument i and every other token kept
RenderedName(base, display, args) ==
    IF display = NoTemplate
    THEN base
    ELSE [k \in 1..Len(display) |->
            IF \E i \in 1..Len(args) : display[k] = Key(i)
            THEN args[CHOOSE i \in 1..Len(args) : display[k] = Key(i)]
            ELSE display[k]]

\* C23: every entry getGroups sets carries the rendered name of its group,
\* with the args of the stored row for a direct entry and with no args for an
\* inherited one, and the entry addToGroup writes carries the rendered name
\* with the args of the call.
C23_NameIsRendered ==
    /\ Returned
         => \A g \in DOMAIN groups :
              groups[g].name =
                  RenderedName(gtable[g].nameBase, gtable[g].nameDisplay,
                               IF groups[g].direct /\ Cardinality(RowsOf(g)) = 1
                               THEN ug[CHOOSE i \in RowsOf(g) : TRUE].args
                               ELSE <<>>)
    /\ Succeeded("addToGroup", "group")
         => groups[ret.gid].name =
                RenderedName(gtable[ret.gid].nameBase, gtable[ret.gid].nameDisplay,
                             ug[Len(ug)].args)

\* the part of C23 that holds: an argument without "$" replaces its placeholder
\* and an inherited entry keeps the raw template
C23_PlainArgsRendered ==
    /\ Returned
         => \A g \in DOMAIN groups :
              LET a == IF groups[g].direct /\ Cardinality(RowsOf(g)) = 1
                       THEN ug[CHOOSE i \in RowsOf(g) : TRUE].args
                       ELSE <<>>
              IN Range(a) \subseteq {"Ana"}
                    => groups[g].name = RenderedName(gtable[g].nameBase, gtable[g].nameDisplay, a)
    /\ Succeeded("addToGroup", "group")
         => (Range(ug[Len(ug)].args) \subseteq {"Ana"}
               => groups[ret.gid].name =
                    RenderedName(gtable[ret.gid].nameBase, gtable[ret.gid].nameDisplay,
                                 ug[Len(ug)].args))


\* ------------------------------------------------ callers during getPermissions
\* lines 608-619 for a second caller, while the running call is suspended at an
\* await of handleRows inside the getGroups that getPermissions awaits (line
\* 561): this.permissions is set since line 557, line 553 returns that object
\* and the caller walks it as it is at that moment
HasPermissionWhileResolving(query) ==
    /\ pc = "rows"
    /\ rows # <<>>
    /\ permsCached
    /\ ret' = [NoRet EXCEPT !.name = "hasPermission", !.query = query,
                            !.val = Walk(permissions, query, 1, <<>>)]
    /\ UNCHANGED <<repo, ug, now, expansion, permCache, pc, stack, op>>

\* the sequential calls that read permissions
NextResolve ==
    \/ GetGroups
    \/ HandleRow
    \/ NextLevel
    \/ GetGroupsReturn
    \/ GetGroupsDone
    \/ GetPermissions
    \/ StructurizePermissions
    \/ GetPermissionsDone
    \/ \E q \in DemoQueries : HasPermission(q)
    \/ HasPermissionDone

NextResolveConcurrent ==
    \/ NextResolve
    \/ \E q \in DemoQueries : HasPermissionWhileResolving(q)

\* the demo repository, the user with or without an individual grant
InitResolve ==
    /\ gtable = DemoTable
    /\ gperms = DemoGroupPermissions
    /\ uperms \in {{}, {<<"reports", "export">>}, {<<"other", "export">>}}
    /\ ug \in DemoRows
    /\ now = 1
    /\ InitObject

SpecResolveConcurrent == InitResolve /\ [][NextResolveConcurrent]_vars

\* C24: hasPermission, called at any moment, does not answer false for a
\* permission string granted to the user or to a group the stored memberships
\* reach (every membership drawn here is active at every clock value).
C24_NeverFalseForGranted ==
    (ret.name = "hasPermission" /\ ret.val = "false")
        => ret.query \notin (uperms \cup UNION {gperms[g] : g \in Reached(ug)})


\* ------------------------------------------------ claims about sets of grants
\* what the first hasPermission(q) of a user object answers when the grants
\* are inserted in the order raw: the build of the tree may raise
AnswerUnder(raw, q) ==
    IF Structurize(EmptyMap, raw).threw
    THEN "TypeError"
    ELSE Walk(Structurize(EmptyMap, raw).tree, q, 1, <<>>)

\* C25: when hasPermission(q) has not answered true under the grants of the
\* user, it does not answer true under any subset of these grants (whatever
\* the order of insertion): adding grants never revokes an authorization.
C25_GrantsAreMonotone ==
    \A q \in Strings(QuerySegs) :
        AnsweredNot(q, "true")
            => \A G \in SUBSET uperms : \E raw \in Orders(G) : AnswerUnder(raw, q) # "true"

\* C26: the outcome of the build of the permission tree does not depend on the
\* order of insertion: every order of the rows getPermissions may read gives
\* the tree that the build leaves, and raises only if the build raised.
C26_OrderDoesNotMatter ==
    [][(pc = "resume" /\ Head(stack) = "getPermissions:561" /\ stack' # stack)
          => \A raw \in RawPermissions :
                /\ Structurize(permissions, raw).tree = permissions'
                /\ Structurize(permissions, raw).threw <=> (pc' = "idle")]_vars

\* C27: getPermissions and hasPermission do not raise, whatever strings are
\* granted, and hasPermission answers true for every granted string.
C27_TotalOverGrants ==
    /\ ret.val # "TypeError"
    /\ \A g \in uperms : ~AnsweredNot(g, "true")


\* ------------------------------------------------ claims about flags and time
\* C28: in the Map getGroups returns, an entry is direct exactly when the user
\* has a stored row for its group, and is not direct with a children list
\* exactly when the group is reached only as an ancestor.
C28_DirectIffStoredRow ==
    Returned
        => \A g \in DOMAIN groups :
              /\ groups[g].direct <=> (RowsOf(g) # {})
              /\ (~groups[g].direct /\ groups[g].children) <=> (RowsOf(g) = {})

\* a permission string p authorizes the query q: q is p or extends it, or p
\* ends in "*" and q extends what precedes the "*"
Covers(p, q) ==
    \/ IsPrefix(p, q)
    \/ /\ p[Len(p)] = "*"
       /\ IsPrefix(SubSeq(p, 1, Len(p) - 1), q)

\* C29: when getGroups hands the Map to its caller, active of every entry
\* tells whether the clock value of that moment lies in the window of the
\* entry; when hasPermission answers true, the query is authorized by a grant
\* of the user or of a group whose window holds the clock value of that moment.
C29_ActiveAtQueryTime ==
    [][/\ (pc = "resume" /\ Head(stack) = "getGroups" /\ stack' # stack)
            => \A g \in DOMAIN groups :
                  groups[g].active <=> ~Inactive(groups[g].from, groups[g].to, now)
       /\ (pc = "resume" /\ Head(stack) = "hasPermission" /\ stack' # stack /\ ret'.val = "true")
            => \E p \in uperms \cup UNION {gperms[g] : g \in {h \in DOMAIN groups :
                                ~Inactive(groups[h].from, groups[h].to, now)}} :
                  Covers(p, op.query)]_vars

\* C30: when endGroupMembership has returned true, a stored row of the user in
\* the target group carries the time of the call as its timeTo.
C30_SuccessEndsARow ==
    Succeeded("endGroupMembership", "true")
        => \E i \in 1..Len(ug) : ug[i].gid = ret.gid /\ ug[i].to = timeNow

====
